---------------------------- MODULE Spec2Model ----------------------------
(***************************************************************************)
(* Model of the sprite-sheet pipeline of src/src/util/spritesheet.rs:      *)
(* SheetBundles::new and the path arithmetic it relies on, the tier        *)
(* builder initialize_spritesheet_bundle (decode, downscale, atlas sizing, *)
(* packing, manifest, image) and the cache gateway                         *)
(* get_spritesheet_bundles.                                                *)
(*                                                                         *)
(* Strings and paths are sequences of one-character strings, so that       *)
(* suffix stripping, extension handling and lexicographic comparison are   *)
(* computed rather than assumed.                                           *)
(***************************************************************************)
EXTENDS Integers, Sequences, FiniteSets, TLC

(***************************************************************************)
(* Bounds of the model.                                                    *)
(***************************************************************************)
\* longest list of source files of a sheet (Spec, SpecAnyOrder, SpecPaths)
MaxFiles == 2
\* longest list of source files of a sheet in SpecSizing
MaxSprites == 4

(***************************************************************************)
(* Characters, strings, std::path.                                         *)
(***************************************************************************)
\* the characters the model's strings use, in ascending byte order
Alphabet == <<"-", ".", "/", "X", "Y", "b", "c", "d", "g", "h", "i", "l",
              "m", "n", "o", "p", "s", "t", "u", "w">>

\* byte order of characters (String's Ord compares bytes)
Code(ch) == CHOOSE i \in 1..Len(Alphabet) : Alphabet[i] = ch

\* str::cmp, as used by BTreeMap<String, _>: a < b
StrLess(a, b) ==
    \E i \in 1..(Len(a) + 1) :
        /\ i <= Len(b)
        /\ \A j \in 1..(i - 1) : a[j] = b[j]
        /\ (i = Len(a) + 1 \/ Code(a[i]) < Code(b[i]))

\* str::ends_with
EndsWith(s, suf) ==
    /\ Len(suf) <= Len(s)
    /\ SubSeq(s, Len(s) - Len(suf) + 1, Len(s)) = suf

\* str::strip_suffix: Option<&str>
strip_suffix(s, suf) ==
    IF EndsWith(s, suf)
    THEN [some |-> TRUE, val |-> SubSeq(s, 1, Len(s) - Len(suf))]
    ELSE [some |-> FALSE, val |-> <<>>]

\* index of the last occurrence of ch in s, 0 when there is none
LastIndexOf(s, ch) ==
    LET hits == {i \in 1..Len(s) : s[i] = ch}
    IN  IF hits = {} THEN 0 ELSE CHOOSE i \in hits : \A j \in hits : j <= i

\* Path::file_name: the final component
file_name(p) == SubSeq(p, LastIndexOf(p, "/") + 1, Len(p))

\* the path up to and including the separator before the final component
ParentPrefix(p) == SubSeq(p, 1, LastIndexOf(p, "/"))

\* Path::file_stem: the file name before its final '.', the whole file
\* name when it has no '.' or only a leading one
file_stem(p) ==
    LET n == file_name(p)
        d == LastIndexOf(n, ".")
    IN  IF d <= 1 THEN n ELSE SubSeq(n, 1, d - 1)

\* PathBuf::set_extension with a non-empty extension
set_extension(p, ext) ==
    IF file_name(p) = <<>> THEN p
    ELSE ParentPrefix(p) \o file_stem(p) \o <<".">> \o ext

\* Path::with_file_name
with_file_name(p, n) == ParentPrefix(p) \o n

\* Path::join
join(base, rel) ==
    IF rel # <<>> /\ rel[1] = "/" THEN rel
    ELSE IF base = <<>> \/ base[Len(base)] = "/" THEN base \o rel
    ELSE base \o <<"/">> \o rel

Ext_png == <<"p", "n", "g">>
Ext_plist == <<"p", "l", "i", "s", "t">>
Suffix_hd == <<"-", "h", "d">>
Suffix_uhd == <<"-", "u", "h", "d">>

(***************************************************************************)
(* SheetBundles.                                                           *)
(***************************************************************************)
Tiers == {"sd", "hd", "uhd"}

\* SheetBundles::new_file
new_file(base) == [png |-> base, plist |-> set_extension(base, Ext_plist)]

\* SheetBundles::new with the full tier given the half tier's suffix
SheetBundles_new_SameSuffix(base0) ==
    LET base == set_extension(base0, Ext_png)
        base_name == file_stem(base)
        hd == with_file_name(base, base_name \o Suffix_hd \o <<".">> \o Ext_png)
    IN  [sd |-> new_file(base), hd |-> new_file(hd), uhd |-> new_file(hd)]

\* SheetBundles::new
SheetBundles_new(base0) ==
    LET base == set_extension(base0, Ext_png)
        base_name == file_stem(base)
        hd == with_file_name(base, base_name \o Suffix_hd \o <<".">> \o Ext_png)
        uhd == with_file_name(base, base_name \o Suffix_uhd \o <<".">> \o Ext_png)
    IN  [sd |-> new_file(base), hd |-> new_file(hd), uhd |-> new_file(uhd)]

\* the factors of the reduced and the full tier exchanged
FactorSwapped(t) == CASE t = "sd" -> 1 [] t = "hd" -> 2 [] t = "uhd" -> 4

\* the downscale factor get_spritesheet_bundles passes for each tier
Factor(t) == CASE t = "sd" -> 4 [] t = "hd" -> 2 [] t = "uhd" -> 1

\* the order in which get_spritesheet_bundles builds the tiers
BuildOrder == <<"sd", "hd", "uhd">>

\* the order of the six extract_from_cache calls: (tier, file kind)
ExtractOrder == << <<"sd", "png">>, <<"sd", "plist">>, <<"hd", "png">>,
                   <<"hd", "plist">>, <<"uhd", "png">>, <<"uhd", "plist">> >>

(***************************************************************************)
(* The tier builder's computations (initialize_spritesheet_bundle).        *)
(***************************************************************************)
\* a decoded source file as a Sprite: its name is the file stem
read_to_sprite(f) == [name |-> file_stem(f.path), w |-> f.w, h |-> f.h]

\* downscale: resize to (width / factor, height / factor)
downscale(sp, factor) ==
    [name |-> sp.name, w |-> sp.w \div factor, h |-> sp.h \div factor]

\* lines 96-108: all files to sprites, then each resized
LoadSprites(files, factor) ==
    [i \in 1..Len(files) |-> downscale(read_to_sprite(files[i]), factor)]

RECURSIVE SumOver(_, _)
\* sum of the function values f[i] over i \in S
SumOver(f, S) ==
    IF S = {} THEN 0
    ELSE LET i == CHOOSE j \in S : TRUE IN f[i] + SumOver(f, S \ {i})

RECURSIVE SqrtSearch(_, _, _, _)
\* the k in lo..hi-1 with k*k*den <= num < (k+1)*(k+1)*den, by bisection
SqrtSearch(num, den, lo, hi) ==
    IF hi - lo <= 1 THEN lo
    ELSE LET mid == (lo + hi) \div 2
         IN  IF mid * mid * den <= num
             THEN SqrtSearch(num, den, mid, hi)
             ELSE SqrtSearch(num, den, lo, mid)

RECURSIVE SqrtAbove(_, _, _)
\* a power of two hi >= k with hi*hi*den > num
SqrtAbove(num, den, k) ==
    IF k * k * den > num THEN k ELSE SqrtAbove(num, den, 2 * k)

\* sqrt(num / den) as u32: the cast truncates toward zero
SqrtAsU32(num, den) == SqrtSearch(num, den, 0, SqrtAbove(num, den, 1))

\* sqrt(num / den) rounded to the nearest integer, halves upward
SqrtRounded(num, den) ==
    LET k == SqrtAsU32(num, den)
    IN  IF (2 * k + 1) * (2 * k + 1) * den <= 4 * num THEN k + 1 ELSE k

\* the max atlas width with the square root rounded instead of truncated
MaxWidthRounded(sprites) ==
    LET n == Len(sprites)
        largest_width ==
            CHOOSE w \in {sprites[i].w : i \in 1..n} :
                \A i \in 1..n : sprites[i].w <= w
        height_sum == SumOver([i \in 1..n |-> sprites[i].h], 1..n)
        width_sum == SumOver([i \in 1..n |-> sprites[i].w], 1..n)
        max_width == SqrtRounded(width_sum * height_sum, n)
    IN  IF max_width < largest_width THEN largest_width + 2 ELSE max_width

\* lines 111-121: the max atlas width for a non-empty list of sprites
compute_max_width(sprites) ==
    LET n == Len(sprites)
        largest_width ==
            CHOOSE w \in {sprites[i].w : i \in 1..n} :
                \A i \in 1..n : sprites[i].w <= w
        height_sum == SumOver([i \in 1..n |-> sprites[i].h], 1..n)
        width_sum == SumOver([i \in 1..n |-> sprites[i].w], 1..n)
        \* (width_sum * (height_sum / n)).sqrt() as u32
        max_width == SqrtAsU32(width_sum * height_sum, n)
    IN  IF max_width < largest_width THEN largest_width + 2 ELSE max_width

RECURSIVE PackFrom(_, _, _)
\* lines 136-138: pack_ref of every sprite in list order into the packer's
\* frames map, which is keyed by sprite name (a later insert of a name
\* replaces the earlier frame)
PackFrom(sprites, i, frames) ==
    IF i > Len(sprites) THEN frames
    ELSE PackFrom(sprites, i + 1,
             (sprites[i].name :>
                 [w |-> sprites[i].w, h |-> sprites[i].h, slot |-> i])
             @@ frames)

pack_sprites(sprites) == PackFrom(sprites, 1, <<>>)

\* the frame key with only a "-hd" suffix stripped
sprite_name_StripHdOnly(id, name) ==
    LET h == strip_suffix(name, Suffix_hd)
        base == IF h.some THEN h.val ELSE name
    IN  id \o <<"/">> \o base \o <<".">> \o Ext_png

\* lines 141-149: `mod.id/sprite.png`
sprite_name_in_sheet(id, name) ==
    LET u == strip_suffix(name, Suffix_uhd)
        h == strip_suffix(name, Suffix_hd)
        base == IF u.some THEN u.val ELSE IF h.some THEN h.val ELSE name
    IN  id \o <<"/">> \o base \o <<".">> \o Ext_png

RECURSIVE CollectFrom(_, _, _, _, _)
\* lines 152-160: the frames, in the order the packer's map yields them,
\* collected into a BTreeMap keyed by frame key (a later entry with an
\* equal key replaces the earlier one)
CollectFrom(id, frames, ord, i, map) ==
    IF i > Len(ord) THEN map
    ELSE CollectFrom(id, frames, ord, i + 1,
             (sprite_name_in_sheet(id, ord[i]) :> frames[ord[i]]) @@ map)

RECURSIVE AscendingKeys(_)
\* the keys S of a BTreeMap in the order its iterator yields them:
\* strictly ascending
AscendingKeys(S) ==
    IF S = {} THEN <<>>
    ELSE LET least == CHOOSE k \in S : \A j \in S \ {k} : StrLess(k, j)
         IN  <<least>> \o AscendingKeys(S \ {least})

\* lines 152-172: the entries of the "frames" dictionary as the plist
\* serializer emits them: it walks the BTreeMap, that is in ascending key
\* order
frame_info(id, frames, ord) ==
    LET map == CollectFrom(id, frames, ord, 1, <<>>)
        keys == AscendingKeys(DOMAIN map)
    IN  [i \in 1..Len(keys) |-> [key |-> keys[i], frame |-> map[keys[i]]]]

\* lines 165-172: the manifest document
plist_file(id, frames, ord) ==
    [kind |-> "plist", frames |-> frame_info(id, frames, ord), format |-> 3]

\* lines 175-182: the exported atlas, every packed frame drawn in its slot
png_file(frames) == [kind |-> "png", frames |-> frames]

\* the orders in which a HashMap holding the keys S can yield them
IterationOrders(S) ==
    {s \in [1..Cardinality(S) -> S] :
        \A i, j \in 1..Cardinality(S) : i # j => s[i] # s[j]}

(***************************************************************************)
(* Inputs.                                                                 *)
(***************************************************************************)
\* the caller's working directory and the mod's id (mod_info.id)
WorkingDir == <<"w">>
ModId == <<"m">>

Str_png == <<".">> \o Ext_png

\* source files: a path and the decoded image's width and height
FilePool ==
    { [path |-> <<"i", "c", "o", "n">> \o Str_png, w |-> 8, h |-> 8],
      [path |-> <<"i", "c", "o", "n">> \o Suffix_hd \o Str_png,
       w |-> 16, h |-> 16],
      [path |-> <<"s", "/", "b">> \o Suffix_uhd \o Str_png,
       w |-> 16, h |-> 8] }

\* lists of distinct source files, at most n long
FileLists(n) ==
    UNION { {f \in [1..k -> FilePool] :
                \A i, j \in 1..k : i # j => f[i] # f[j]} : k \in 0..n }

\* source image sizes of SpecSizing and the file stems that carry them
SizingDims == {<<40, 40>>, <<400, 400>>, <<4, 400>>, <<4, 40>>}
SizingStems == <<"b", "c", "d", "g", "h", "i", "l">>

SizingLists(n) ==
    UNION { { [i \in 1..k |->
                  [path |-> <<SizingStems[i]>> \o Str_png,
                   w |-> d[i][1], h |-> d[i][2]]] :
              d \in [1..k -> SizingDims] } : k \in 0..n }

Name_X == <<"X">>
SheetNames == {Name_X, Name_X \o Suffix_hd, Name_X \o Suffix_uhd, <<"Y">>}

None == [some |-> FALSE]
Some(v) == [some |-> TRUE, val |-> v]

\* what fetch_spritesheet_bundles can answer: no entry, or the cached path
CachedPaths == {Name_X \o Str_png, <<"c", "/">> \o Name_X}
Caches ==
    {[present |-> FALSE, lookup |-> None, inserted |-> <<>>]} \cup
    {[present |-> TRUE, lookup |-> l, inserted |-> <<>>] :
        l \in {None} \cup {Some(q) : q \in CachedPaths}}

(***************************************************************************)
(* State.                                                                  *)
(***************************************************************************)
VARIABLES
    sheet,         \* the SpriteSheet of the current request: name, files
    cache,         \* Option<CacheBundle>: present, lookup answer, inserts
    sched,         \* "seq": tiers run one after another, as the code does;
                   \* "any": the tier builds run in any order, interleaved
    pending,       \* sheets the caller requests after this one
    completed,     \* sheets whose request returned
    pc,            \* "start", "extract", "build", "done", "aborted"
    bundles,       \* the SheetBundles of the request
    extractCalls,  \* the extract_cached_into calls made, in order
    builderCalls,  \* the initialize_spritesheet_bundle calls made, in order
    tiers,         \* per tier: the locals of its tier build
    fs,            \* the files on disk: path -> [data, by]
    result,        \* the returned SheetBundles, None before the return
    ran,           \* number of steps run in this request
    failedAt       \* the step that failed, 0 when none did

vars == <<sheet, cache, sched, pending, completed, pc, bundles, extractCalls,
          builderCalls, tiers, fs, result, ran, failedAt>>

IdleTier == [pc |-> "idle", sprites |-> <<>>, max_width |-> 0,
             frames |-> <<>>]

FreshRequest ==
    /\ pc = "start"
    /\ bundles = None
    /\ extractCalls = <<>>
    /\ builderCalls = <<>>
    /\ tiers = [t \in Tiers |-> IdleTier]
    /\ result = None
    /\ ran = 0
    /\ failedAt = 0

\* one request, the tiers built in the code's order
Init ==
    /\ sheet \in {[name |-> Name_X, files |-> f] : f \in FileLists(MaxFiles)}
    /\ cache \in Caches
    /\ sched = "seq"
    /\ pending = <<>>
    /\ completed = <<>>
    /\ fs = <<>>
    /\ FreshRequest

(***************************************************************************)
(* Steps.  Every fallible call (decode, pack, write, extract) either       *)
(* succeeds or fails; the code unwraps each result, which ends the process *)
(* on a failure.                                                           *)
(***************************************************************************)
\* an unwrap that lets a failed call pass
UnwrappedAlways(ok) == TRUE

\* whether control passes an unwrap / nice_unwrap of a call that ended ok
Unwrapped(ok) == ok

\* bookkeeping common to all steps: the step count, the failure, the exit
Step(ok) ==
    /\ ran' = ran + 1
    /\ failedAt' = IF ok THEN failedAt ELSE ran + 1

Written(path, data) == (path :> [data |-> data, by |-> sheet.name]) @@ fs

\* lines 224-231 and 245-248: the cache lookup and the SheetBundles of the
\* request
Lookup ==
    /\ pc = "start"
    /\ IF cache.present /\ cache.lookup.some
       THEN /\ bundles' = SheetBundles_new(cache.lookup.val)
            /\ pc' = "extract"
       ELSE /\ bundles' = SheetBundles_new(
                              join(WorkingDir, sheet.name \o Str_png))
            /\ pc' = "build"
    /\ Step(TRUE)
    /\ UNCHANGED <<sheet, cache, sched, pending, completed, extractCalls,
                   builderCalls, tiers, fs, result>>

\* extract_from_cache with the destination joined from the whole path
extract_from_cache_WholePath(path, working_dir) ==
    [entry |-> path, dest |-> join(working_dir, path)]

\* extract_from_cache: the entry named by the whole path goes to the
\* working directory under the path's file name
extract_from_cache(path, working_dir) ==
    [entry |-> path, dest |-> join(working_dir, file_name(path))]

\* CacheBundle::extract_cached_into: the archived entry copied to dest
extract_cached_into(call) ==
    Written(call.dest, [kind |-> "cached", entry |-> call.entry])

\* lines 233-238: the next of the six extractions
Extract ==
    /\ pc = "extract"
    /\ Len(extractCalls) < Len(ExtractOrder)
    /\ LET which == ExtractOrder[Len(extractCalls) + 1]
           call == extract_from_cache(bundles[which[1]][which[2]], WorkingDir)
       IN  /\ extractCalls' = Append(extractCalls, call)
           /\ \E ok \in BOOLEAN :
                /\ Step(ok)
                /\ IF Unwrapped(ok)
                   THEN /\ fs' = extract_cached_into(call)
                        /\ pc' = pc
                   ELSE /\ fs' = fs
                        /\ pc' = "aborted"
    /\ UNCHANGED <<sheet, cache, sched, pending, completed, bundles,
                   builderCalls, tiers, result>>

\* lines 240-241: return after the sixth extraction
ReturnCached ==
    /\ pc = "extract"
    /\ Len(extractCalls) = Len(ExtractOrder)
    /\ result' = Some(bundles)
    /\ pc' = "done"
    /\ Step(TRUE)
    /\ UNCHANGED <<sheet, cache, sched, pending, completed, bundles,
                   extractCalls, builderCalls, tiers, fs>>

\* lines 253-259: a tier's build is called when the builds before it
\* have returned
Startable(t) ==
    \/ sched = "any"
    \/ \E i \in 1..Len(BuildOrder) :
          /\ BuildOrder[i] = t
          /\ \A j \in 1..(i - 1) : tiers[BuildOrder[j]].pc = "done"

\* lines 96-108: the call of initialize_spritesheet_bundle for tier t,
\* decoding and resizing the source files
ReadSprites(t) ==
    /\ pc = "build"
    /\ tiers[t].pc = "idle"
    /\ Startable(t)
    /\ builderCalls' =
         Append(builderCalls, [bundle |-> bundles[t], factor |-> Factor(t)])
    /\ \E ok \in BOOLEAN :
         /\ Step(ok)
         /\ IF Unwrapped(ok)
            THEN /\ tiers' = [tiers EXCEPT ![t].pc = "loaded",
                       ![t].sprites = LoadSprites(sheet.files, Factor(t))]
                 /\ pc' = pc
            ELSE /\ tiers' = tiers
                 /\ pc' = "aborted"
    /\ UNCHANGED <<sheet, cache, sched, pending, completed, bundles,
                   extractCalls, fs, result>>

\* lines 110-121: the atlas width; max() of no sprites is None, unwrapped
SizeAtlas(t) ==
    /\ pc = "build"
    /\ tiers[t].pc = "loaded"
    /\ LET ok == tiers[t].sprites # <<>>
       IN  /\ Step(ok)
           /\ IF Unwrapped(ok)
              THEN /\ tiers' = [tiers EXCEPT ![t].pc = "sized",
                         ![t].max_width = compute_max_width(tiers[t].sprites)]
                   /\ pc' = pc
              ELSE /\ tiers' = tiers
                   /\ pc' = "aborted"
    /\ UNCHANGED <<sheet, cache, sched, pending, completed, bundles,
                   extractCalls, builderCalls, fs, result>>

\* lines 123-139: every sprite packed; a pack error is unwrapped
PackSprites(t) ==
    /\ pc = "build"
    /\ tiers[t].pc = "sized"
    /\ \E ok \in BOOLEAN :
         /\ Step(ok)
         /\ IF Unwrapped(ok)
            THEN /\ tiers' = [tiers EXCEPT ![t].pc = "packed",
                       ![t].frames = pack_sprites(tiers[t].sprites)]
                 /\ pc' = pc
            ELSE /\ tiers' = tiers
                 /\ pc' = "aborted"
    /\ UNCHANGED <<sheet, cache, sched, pending, completed, bundles,
                   extractCalls, builderCalls, fs, result>>

\* lines 151-172: the manifest built from the packer's frames, in whatever
\* order its HashMap yields them, and written
WritePlist(t) ==
    /\ pc = "build"
    /\ tiers[t].pc = "packed"
    /\ \E ok \in BOOLEAN, ord \in IterationOrders(DOMAIN tiers[t].frames) :
         /\ Step(ok)
         /\ IF Unwrapped(ok)
            THEN /\ fs' = Written(bundles[t].plist,
                                  plist_file(ModId, tiers[t].frames, ord))
                 /\ tiers' = [tiers EXCEPT ![t].pc = "plist"]
                 /\ pc' = pc
            ELSE /\ fs' = fs
                 /\ tiers' = tiers
                 /\ pc' = "aborted"
    /\ UNCHANGED <<sheet, cache, sched, pending, completed, bundles,
                   extractCalls, builderCalls, result>>

\* lines 174-195: the image file created, then the atlas exported and
\* written into it; File::create leaves an empty file when the export or
\* the write fails after it
WritePng(t) ==
    /\ pc = "build"
    /\ tiers[t].pc = "plist"
    /\ \E created \in BOOLEAN, exported \in BOOLEAN :
         /\ Step(created /\ exported)
         /\ IF Unwrapped(created /\ exported)
            THEN /\ fs' = Written(bundles[t].png, png_file(tiers[t].frames))
                 /\ tiers' = [tiers EXCEPT ![t].pc = "done"]
                 /\ pc' = pc
            ELSE /\ fs' = IF created
                          THEN Written(bundles[t].png, [kind |-> "empty"])
                          ELSE fs
                 /\ tiers' = tiers
                 /\ pc' = "aborted"
    /\ UNCHANGED <<sheet, cache, sched, pending, completed, bundles,
                   extractCalls, builderCalls, result>>

\* lines 261-262: return after the three builds
ReturnBuilt ==
    /\ pc = "build"
    /\ \A t \in Tiers : tiers[t].pc = "done"
    /\ result' = Some(bundles)
    /\ pc' = "done"
    /\ Step(TRUE)
    /\ UNCHANGED <<sheet, cache, sched, pending, completed, bundles,
                   extractCalls, builderCalls, tiers, fs>>

\* the caller asks for its next sheet, in the same working directory
NextRequest ==
    /\ pc = "done"
    /\ pending # <<>>
    /\ sheet' = Head(pending)
    /\ pending' = Tail(pending)
    /\ completed' = Append(completed, sheet)
    /\ pc' = "start"
    /\ bundles' = None
    /\ extractCalls' = <<>>
    /\ builderCalls' = <<>>
    /\ tiers' = [t \in Tiers |-> IdleTier]
    /\ result' = None
    /\ ran' = 0
    /\ failedAt' = 0
    /\ UNCHANGED <<cache, sched, fs>>

Next ==
    \/ Lookup
    \/ Extract
    \/ ReturnCached
    \/ \E t \in Tiers : ReadSprites(t)
    \/ \E t \in Tiers : SizeAtlas(t)
    \/ \E t \in Tiers : PackSprites(t)
    \/ \E t \in Tiers : WritePlist(t)
    \/ \E t \in Tiers : WritePng(t)
    \/ ReturnBuilt

Spec == Init /\ [][Next]_vars

\* the steps of a request that does not hit the cache
NextBuild ==
    \/ Lookup
    \/ \E t \in Tiers : ReadSprites(t)
    \/ \E t \in Tiers : SizeAtlas(t)
    \/ \E t \in Tiers : PackSprites(t)
    \/ \E t \in Tiers : WritePlist(t)
    \/ \E t \in Tiers : WritePng(t)
    \/ ReturnBuilt

\* one request over sprites of many sizes, no cache
InitSizing ==
    /\ sheet \in {[name |-> Name_X, files |-> f] : f \in SizingLists(MaxSprites)}
    /\ cache = [present |-> FALSE, lookup |-> None, inserted |-> <<>>]
    /\ sched = "seq"
    /\ pending = <<>>
    /\ completed = <<>>
    /\ fs = <<>>
    /\ FreshRequest

SpecSizing == InitSizing /\ [][NextBuild]_vars

\* one request without a cache, its three tier builds free to run in any
\* order and to interleave
InitAnyOrder ==
    /\ sheet \in {[name |-> Name_X, files |-> f] : f \in FileLists(MaxFiles)}
    /\ cache = [present |-> FALSE, lookup |-> None, inserted |-> <<>>]
    /\ sched = "any"
    /\ pending = <<>>
    /\ completed = <<>>
    /\ fs = <<>>
    /\ FreshRequest

SpecAnyOrder == InitAnyOrder /\ [][NextBuild]_vars

\* two requests, for sheets of different names, one after the other in the
\* same working directory, no cache
InitPaths ==
    /\ \E a \in SheetNames, b \in SheetNames, f \in FileLists(MaxFiles) :
         /\ a # b
         /\ sheet = [name |-> a, files |-> f]
         /\ pending = <<[name |-> b, files |-> f]>>
    /\ cache = [present |-> FALSE, lookup |-> None, inserted |-> <<>>]
    /\ sched = "seq"
    /\ completed = <<>>
    /\ fs = <<>>
    /\ FreshRequest

NextPaths == NextBuild \/ NextRequest

SpecPaths == InitPaths /\ [][NextPaths]_vars

(***************************************************************************)
(* Properties.  The expected names are written out here from the naming    *)
(* convention (X.png, X.plist, X-hd.png, ...), not taken from the model's  *)
(* SheetBundles_new.                                                       *)
(***************************************************************************)
Hit == cache.present /\ cache.lookup.some

\* the six artifact file names of a sheet, under the directory prefix dir
SixFiles(dir, name) ==
    { dir \o name \o sfx \o <<".">> \o ext :
        sfx \in {<<>>, Suffix_hd, Suffix_uhd}, ext \in {Ext_png, Ext_plist} }

InWorkingDir == WorkingDir \o <<"/">>

\* the directory prefix of the cached paths of CachedPaths
CachedDir(q) == IF q[1] = "c" THEN <<"c", "/">> ELSE <<>>

\* the extraction calls a hit on the cached path q is to make
ExpectedExtractions(q) ==
    { [entry |-> CachedDir(q) \o f, dest |-> InWorkingDir \o f] :
        f \in SixFiles(<<>>, Name_X) }

\* C1: on a cache hit the tier builder is never invoked and the extraction
\* calls made are distinct calls among the six (entry = the cached path's
\* X.png, X.plist, X-hd.png, X-hd.plist, X-uhd.png, X-uhd.plist, destination
\* = working_dir/<file name>); when the request returns, all six were made.
C1_HitExtractsSix ==
    Hit =>
      /\ builderCalls = <<>>
      /\ \A i \in 1..Len(extractCalls) :
            extractCalls[i] \in ExpectedExtractions(cache.lookup.val)
      /\ \A i, j \in 1..Len(extractCalls) :
            i # j => extractCalls[i] # extractCalls[j]
      /\ pc = "done" => Len(extractCalls) = 6

\* a hit on a cached path with a directory has returned
C1_Witness ==
    /\ Hit
    /\ cache.lookup.val = <<"c", "/">> \o Name_X
    /\ pc = "done"

\* the builder calls of a miss for sheet X: reduced, half, full
ExpectedBuilds ==
    << [bundle |-> [png |-> InWorkingDir \o Name_X \o Str_png,
                    plist |-> InWorkingDir \o Name_X \o <<".">> \o Ext_plist],
        factor |-> 4],
       [bundle |-> [png |-> InWorkingDir \o Name_X \o Suffix_hd \o Str_png,
                    plist |-> InWorkingDir \o Name_X \o Suffix_hd
                                \o <<".">> \o Ext_plist],
        factor |-> 2],
       [bundle |-> [png |-> InWorkingDir \o Name_X \o Suffix_uhd \o Str_png,
                    plist |-> InWorkingDir \o Name_X \o Suffix_uhd
                                \o <<".">> \o Ext_plist],
        factor |-> 1] >>

\* C2: without a cache, or when the lookup answers None, the builder calls
\* made so far are the first calls of (reduced, 4), (half, 2), (full, 1) in
\* that order, all three once the request returns; no extraction call is
\* made and nothing is inserted into the cache.
C2_MissBuildsThreeInOrder ==
    ~Hit =>
      /\ Len(builderCalls) <= 3
      /\ builderCalls = SubSeq(ExpectedBuilds, 1, Len(builderCalls))
      /\ pc = "done" => Len(builderCalls) = 3
      /\ extractCalls = <<>>
      /\ cache.inserted = <<>>

\* a request with a cache that answers None has returned
C2_Witness ==
    /\ cache.present
    /\ ~cache.lookup.some
    /\ pc = "done"

\* the kind of file the request is to leave at each of its six paths
ProducedKind(path) ==
    IF path \notin DOMAIN fs THEN "missing"
    ELSE fs[path].data.kind

\* C3: no partial success.  A returned bundle means that no step failed and
\* that all six artifact files are on disk, extracted on a hit and built
\* (image or manifest, never the empty file a failed export leaves) on a
\* miss; a failed step ends the request there: it is the last step run and
\* nothing is returned.
C3_NoPartialSuccess ==
    /\ result.some =>
         /\ failedAt = 0
         /\ pc = "done"
         /\ \A f \in SixFiles(InWorkingDir, Name_X) :
               ProducedKind(f) =
                 IF Hit THEN "cached"
                 ELSE IF EndsWith(f, Ext_plist) THEN "plist" ELSE "png"
    /\ failedAt # 0 =>
         /\ pc = "aborted"
         /\ ran = failedAt
         /\ ~result.some

\* a build failed in the half tier, after the reduced tier was finished
C3_Witness ==
    /\ pc = "aborted"
    /\ failedAt # 0
    /\ tiers["sd"].pc = "done"
    /\ tiers["hd"].pc \notin {"idle", "done"}
    /\ tiers["uhd"].pc = "idle"

Str_icon == <<"i", "c", "o", "n">>

\* the frame key each source file of FilePool is to get
ExpectedKey(f) ==
    IF f.path = Str_icon \o Str_png
         THEN ModId \o <<"/">> \o Str_icon \o Str_png
    ELSE IF f.path = Str_icon \o Suffix_hd \o Str_png
         THEN ModId \o <<"/">> \o Str_icon \o Str_png
    ELSE ModId \o <<"/", "b">> \o Str_png

PlistWritten(t) == pc \in {"build", "done"} /\ tiers[t].pc \in {"plist", "done"}

ManifestOf(t) == fs[bundles[t].plist].data

KeysOf(manifest) ==
    {manifest.frames[i].key : i \in 1..Len(manifest.frames)}

\* C4: in every tier's manifest the frame keys are "<namespace>/<base>.png"
\* with the "-hd" / "-uhd" suffix of the sprite name stripped, the same keys
\* in the reduced, half and full manifests ("icon-hd.png" keys as
\* "<namespace>/icon.png" in all three).
C4_KeyStableAcrossTiers ==
    \A t \in Tiers :
        PlistWritten(t) =>
            KeysOf(ManifestOf(t)) =
                {ExpectedKey(sheet.files[i]) : i \in 1..Len(sheet.files)}

\* all three manifests of a sheet holding icon-hd.png and b-uhd.png are
\* written
C4_Witness ==
    /\ \A t \in Tiers : PlistWritten(t)
    /\ Len(sheet.files) = 2
    /\ \A i \in 1..2 : sheet.files[i].path # Str_icon \o Str_png

\* C5: every frame key is unique within a manifest and every source sprite
\* of the sheet has its own frame: a manifest holds exactly one frame per
\* source file.
C5_OneFramePerSprite ==
    \A t \in Tiers :
        PlistWritten(t) =>
            /\ Cardinality(KeysOf(ManifestOf(t))) = Len(ManifestOf(t).frames)
            /\ Len(ManifestOf(t).frames) = Len(sheet.files)

\* C6: the frames of a manifest are in strictly ascending order of key
\* whatever the order in which the packer yields its frames, and the
\* manifest is the one every other such order gives as well (two builds of
\* the same sprites produce identical manifests).
C6_SortedAndDeterministic ==
    \A t \in Tiers :
        PlistWritten(t) =>
            /\ \A i \in 1..(Len(ManifestOf(t).frames) - 1) :
                  StrLess(ManifestOf(t).frames[i].key,
                          ManifestOf(t).frames[i + 1].key)
            /\ \A ord \in IterationOrders(DOMAIN tiers[t].frames) :
                  ManifestOf(t) = plist_file(ModId, tiers[t].frames, ord)

Sized(t) ==
    /\ pc \in {"build", "done", "aborted"}
    /\ tiers[t].pc \in {"sized", "packed", "plist", "done"}

LargestWidth(sprites) ==
    CHOOSE w \in {sprites[i].w : i \in 1..Len(sprites)} :
        \A i \in 1..Len(sprites) : sprites[i].w <= w

\* width_sum * height_sum: n times the product width_sum * mean_height
AreaTimesCount(sprites) ==
    SumOver([i \in 1..Len(sprites) |-> sprites[i].w], 1..Len(sprites))
    * SumOver([i \in 1..Len(sprites) |-> sprites[i].h], 1..Len(sprites))

\* four sprites of 10 x 10
FourTens(sprites) ==
    /\ Len(sprites) = 4
    /\ \A i \in 1..4 : sprites[i].w = 10 /\ sprites[i].h = 10

\* one sprite of width 100 among sprites at most a tenth as wide
OneWideAmongNarrow(sprites) ==
    /\ Len(sprites) >= 2
    /\ \E i \in 1..Len(sprites) :
          /\ sprites[i].w = 100
          /\ \A j \in 1..Len(sprites) : j # i => sprites[j].w <= 10

\* C7 as stated: the max atlas width is H = round(sqrt(width_sum *
\* mean_height)) when H is at least the largest sprite width and
\* largest_sprite_width + 2 otherwise; four 10 x 10 sprites give 20; a
\* sprite of width 100 among much narrower ones gives at least 102.
\* (H >= w iff 4 * area >= (2w - 1)^2, H = m iff (2m - 1)^2 <= 4 * area <
\* (2m + 1)^2, each side times the sprite count.)
C7_MaxWidthRounds ==
    \A t \in Tiers :
        Sized(t) =>
            LET sp == tiers[t].sprites
                n == Len(sp)
                m == tiers[t].max_width
                w == LargestWidth(sp)
                a == AreaTimesCount(sp)
            IN  /\ IF (2 * w - 1) * (2 * w - 1) * n <= 4 * a
                   THEN /\ (2 * m - 1) * (2 * m - 1) * n <= 4 * a
                        /\ 4 * a < (2 * m + 1) * (2 * m + 1) * n
                   ELSE m = w + 2
                /\ FourTens(sp) => m = 20
                /\ OneWideAmongNarrow(sp) => m >= 102

\* C7 as the code has it: the max atlas width is T = sqrt(width_sum *
\* mean_height) truncated to an integer when T is at least the largest
\* sprite width and largest_sprite_width + 2 otherwise; four 10 x 10 sprites
\* give 20; a sprite of width 100 among much narrower ones gives at least
\* 100.  (T >= w iff area >= w^2, T = m iff m^2 <= area < (m + 1)^2.)
C7_MaxWidthTruncates ==
    \A t \in Tiers :
        Sized(t) =>
            LET sp == tiers[t].sprites
                n == Len(sp)
                m == tiers[t].max_width
                w == LargestWidth(sp)
                a == AreaTimesCount(sp)
            IN  /\ IF w * w * n <= a
                   THEN /\ m * m * n <= a
                        /\ a < (m + 1) * (m + 1) * n
                   ELSE m = w + 2
                /\ FourTens(sp) => m = 20
                /\ OneWideAmongNarrow(sp) => m >= 100

\* the reduced tier of four 40 x 40 images is sized
C7_Witness ==
    /\ Sized("sd")
    /\ FourTens(tiers["sd"].sprites)
    /\ tiers["sd"].max_width = 20

\* lines 119-121: once sized, no sprite of the tier is wider than the max
\* atlas width handed to the packer
WidestSpriteFits ==
    \A t \in Tiers :
        Sized(t) =>
            \A i \in 1..Len(tiers[t].sprites) :
                tiers[t].sprites[i].w <= tiers[t].max_width

\* C9: builds of two sheets of different names in one working directory
\* share no file: after the second sheet's request has run, each of the six
\* paths of the first (A.png, A.plist, A-hd.png, A-hd.plist, A-uhd.png,
\* A-uhd.plist) still holds what the first sheet's build wrote there.
C9_SheetsKeepTheirFiles ==
    \A i \in 1..Len(completed) :
        \A f \in SixFiles(InWorkingDir, completed[i].name) :
            /\ f \in DOMAIN fs
            /\ fs[f].by = completed[i].name

TierSuffix(t) ==
    CASE t = "sd" -> <<>> [] t = "hd" -> Suffix_hd [] t = "uhd" -> Suffix_uhd

TierFile(t, ext) == InWorkingDir \o Name_X \o TierSuffix(t) \o <<".">> \o ext

\* the frames a build of tier t packs from the source files alone
FramesFromSources(t) == pack_sprites(LoadSprites(sheet.files, Factor(t)))

=============================================================================
